---- MODULE Spec2Model ----
(***************************************************************************)
(* Model of the task REST backend (src/main.py, src/schemas.py).           *)
(*                                                                         *)
(* The persisted state is the "task" collection of the document store.     *)
(* Each request handler of main.py is one action.  Under Spec a handler    *)
(* runs to completion before the next one starts (the handlers are         *)
(* coroutines without a suspension point, served by one event loop).       *)
(* Under ConcSpec several server processes share the store, and the        *)
(* handlers that make two persistence calls (create, update) are split     *)
(* between the two calls.                                                  *)
(*                                                                         *)
(* Encodings                                                               *)
(*   Optional value : a set, {} for None/null and {v} for the value v      *)
(*   text           : a tuple of one-character strings                     *)
(*   timestamp      : a natural number, in units of the stored resolution  *)
(*   ObjectId       : a positive natural number; its string form is the    *)
(*                    record [valid |-> TRUE, oid |-> n]; a string that    *)
(*                    ObjectId() refuses is [valid |-> FALSE, oid |-> 0]   *)
(*   document       : a function from field names to values                *)
(***************************************************************************)
EXTENDS Integers, Sequences, FiniteSets, TLC

VARIABLES
    store,      \* the "task" collection: ObjectId -> document
    nextId,     \* number of ObjectIds generated so far (ids are never reused)
    clock,      \* the last value the wall clock was read at
    nreq,       \* number of requests accepted so far
    resp,       \* the response emitted by the last step (NoResponse if none)
    pending,    \* handlers between their two persistence calls (ConcSpec only)
    okDeletes   \* history: ObjectId -> number of deletes answered {status: ok}

vars == <<store, nextId, clock, nreq, resp, pending, okDeletes>>

----------------------------------------------------------------------------
(* Bounds of the model *)

MaxTasks == 2

MaxClock == 2

MaxRequests == 3

MaxPending == 2

(* Program constants *)

TitleMinLen == 1

TitleMaxLen == 240

NotesMaxLen == 2000

----------------------------------------------------------------------------
(* Optional values *)

None == {}

Some(v) == {v}

Value(opt) == CHOOSE v \in opt : TRUE

Get(doc, key, default) == IF key \in DOMAIN doc THEN doc[key] ELSE default

----------------------------------------------------------------------------
(* Request inputs *)

ObjectIds == 1..MaxTasks

BadTaskId == [valid |-> FALSE, oid |-> 0]

StrOfObjectId(oid) == [valid |-> TRUE, oid |-> oid]

TaskIds == {StrOfObjectId(i) : i \in ObjectIds} \cup {BadTaskId}

\* Readings datetime.now() can return when the previous reading was c.
Now(c) == {t \in {c, c + 1} : t <= MaxClock}

\* JSON bodies of POST /api/tasks (title is required by TaskCreate).
CreateBodies ==
    { "title" :> <<"A">>,
      "title" :> <<>>,
      ("title" :> <<"a", "b">>) @@ ("notes" :> Some(<<"b">>)) @@ ("priority" :> "high"),
      ("title" :> <<"b">>) @@ ("priority" :> "urgent") @@ ("due_at" :> Some(1)) }

\* JSON bodies of PATCH /api/tasks/{id}.
UpdateBodies ==
    { <<>>,
      "completed" :> Some(TRUE),
      "completed" :> None,
      "title" :> Some(<<"b">>),
      "title" :> None,
      "priority" :> Some("urgent"),
      ("notes" :> Some(<<".">>)) @@ ("completed" :> Some(FALSE)),
      "due_at" :> Some(0) }

Queries == {None, Some(<<>>), Some(<<"a">>), Some(<<".">>)}

Filters == {None, Some("active"), Some("completed"), Some("all")}

----------------------------------------------------------------------------
(* Request models *)

\* Mutant of TaskCreate: another default priority.
TaskCreate_LowDefault(body) ==
    [ title      |-> body["title"],
      notes      |-> Get(body, "notes", None),
      priority   |-> Get(body, "priority", "low"),
      due_at     |-> Get(body, "due_at", None),
      fields_set |-> DOMAIN body ]

TaskCreate(body) ==
    [ title      |-> body["title"],
      notes      |-> Get(body, "notes", None),
      priority   |-> Get(body, "priority", "medium"),
      due_at     |-> Get(body, "due_at", None),
      fields_set |-> DOMAIN body ]

TaskUpdate(body) ==
    [ title      |-> Get(body, "title", None),
      notes      |-> Get(body, "notes", None),
      priority   |-> Get(body, "priority", None),
      completed  |-> Get(body, "completed", None),
      due_at     |-> Get(body, "due_at", None),
      fields_set |-> DOMAIN body ]

\* payload.model_dump(exclude_unset=True)
ModelDumpSet(payload) == [k \in payload.fields_set |-> payload[k]]

----------------------------------------------------------------------------
(* The persistence collaborator: the "task" collection *)

\* create_document(COLL, data): insert one, the driver generating the _id.
InsertedId(n) == n + 1

CreateDocument(st, n, data) ==
    LET oid == InsertedId(n)
    IN  [i \in DOMAIN st \cup {oid} |->
            IF i = oid THEN ("_id" :> oid) @@ data ELSE st[i]]

\* Mutant of SetFields: the optional fields the update does not name are
\* written as null.
ReplaceFields(doc, update) ==
    [k \in DOMAIN doc \cup DOMAIN update |->
        IF k \in DOMAIN update THEN update[k]
        ELSE IF k \in {"notes", "completed", "due_at"} THEN None
        ELSE doc[k]]

\* {"$set": update} applied to one document
SetFields(doc, update) ==
    [k \in DOMAIN doc \cup DOMAIN update |->
        IF k \in DOMAIN update THEN update[k] ELSE doc[k]]

\* db[COLL].find_one_and_update({"_id": oid}, {"$set": update}): no upsert
FindOneAndUpdate(st, oid, update) ==
    IF oid \in DOMAIN st
    THEN [st EXCEPT ![oid] = SetFields(@, update)]
    ELSE st

\* db[COLL].find_one({"_id": oid})
FindOne(st, oid) == IF oid \in DOMAIN st THEN Some(st[oid]) ELSE None

\* db[COLL].delete_one({"_id": oid})
DeletedCount(st, oid) == IF oid \in DOMAIN st THEN 1 ELSE 0

DeleteOne(st, oid) == [i \in DOMAIN st \ {oid} |-> st[i]]

----------------------------------------------------------------------------
(* Text search: {"$regex": q, "$options": "i"} *)

Lower(c) == IF c = "A" THEN "a" ELSE IF c = "B" THEN "b" ELSE c

\* One pattern character against one text character.  The pattern language
\* modelled is literals and the metacharacter "." (any character).
RegexCharMatch(p, c) == p = "." \/ Lower(p) = Lower(c)

RegexSearch(pattern, text) ==
    \E i \in 0..(Len(text) - Len(pattern)) :
        \A j \in 1..Len(pattern) : RegexCharMatch(pattern[j], text[i + j])

\* A null (or non-string) field never matches a $regex condition.
FieldRegex(doc, key, pattern) ==
    /\ key \in DOMAIN doc
    /\ doc[key] # None
    /\ RegexSearch(pattern, Value(doc[key]))

\* The query document of list_tasks: regex is the $or pattern (None when the
\* query has no $or), completed the equality condition (None when absent).
BuildQuery(q, filter) ==
    [ regex     |-> IF q # None /\ Value(q) # <<>> THEN q ELSE None,
      completed |-> IF filter = Some("active") THEN Some(FALSE)
                    ELSE IF filter = Some("completed") THEN Some(TRUE)
                    ELSE None ]

Matches(doc, query) ==
    /\ query.regex # None =>
          \/ FieldRegex(doc, "title", Value(query.regex))
          \/ FieldRegex(doc, "notes", Value(query.regex))
    /\ query.completed # None =>
          /\ "completed" \in DOMAIN doc
          /\ doc["completed"] = query.completed

RECURSIVE SeqOfIds(_, _)
SeqOfIds(st, ids) ==
    IF ids = {} THEN <<>>
    ELSE LET m == CHOOSE i \in ids : \A j \in ids : i <= j
         IN  <<st[m]>> \o SeqOfIds(st, ids \ {m})

\* get_documents(COLL, query): find many by filter, in insertion order.
GetDocuments(st, query) ==
    SeqOfIds(st, {i \in DOMAIN st : Matches(st[i], query)})

\* key=lambda d: d.get("created_at", datetime.now(timezone.utc))
SortKey(d, now) ==
    IF "created_at" \in DOMAIN d THEN Value(d["created_at"]) ELSE now

\* Position after the elements of the descending sequence s whose key is >= k.
RECURSIVE PrefixGeq(_, _, _)
PrefixGeq(s, k, now) ==
    IF s = <<>> \/ SortKey(Head(s), now) < k THEN 0
    ELSE 1 + PrefixGeq(Tail(s), k, now)

\* docs.sort(key=..., reverse=True): stable, descending
RECURSIVE SortDesc(_, _)
SortDesc(docs, now) ==
    IF docs = <<>> THEN <<>>
    ELSE LET n      == Len(docs)
             sorted == SortDesc(SubSeq(docs, 1, n - 1), now)
             d      == docs[n]
             k      == PrefixGeq(sorted, SortKey(d, now), now)
         IN  SubSeq(sorted, 1, k) \o <<d>> \o SubSeq(sorted, k + 1, Len(sorted))

----------------------------------------------------------------------------
(* The output shape *)

\* TaskOut's validation: title and priority are str, not Optional.
TaskOutValid(doc) ==
    /\ Get(doc, "title", None) # None
    /\ Get(doc, "priority", Some("medium")) # None

\* bool(doc.get("completed", False))
Bool(opt) == opt # None /\ Value(opt) = TRUE

\* serialize_task(doc), for a doc that passes TaskOut's validation
SerializeTask(doc) ==
    [ id         |-> StrOfObjectId(doc["_id"]),
      title      |-> Value(Get(doc, "title", None)),
      notes      |-> Get(doc, "notes", None),
      priority   |-> Value(Get(doc, "priority", Some("medium"))),
      completed  |-> Bool(Get(doc, "completed", Some(FALSE))),
      created_at |-> Get(doc, "created_at", None),
      updated_at |-> Get(doc, "updated_at", None),
      due_at     |-> Get(doc, "due_at", None) ]

----------------------------------------------------------------------------
(* Responses *)

Response(op, req, status, detail, body) ==
    [op |-> op, req |-> req, status |-> status, detail |-> detail, body |-> body]

NoResponse == Response("none", <<>>, 0, "", <<>>)

\* An exception no handler catches: the framework answers 500.
ServerError(op, req) == Response(op, req, 500, "Internal Server Error", <<>>)

\* return serialize_task(doc), for the document find_one returned
ReturnTask(op, req, doc) ==
    IF TaskOutValid(doc)
    THEN Response(op, req, 200, "", <<SerializeTask(doc)>>)
    ELSE ServerError(op, req)

----------------------------------------------------------------------------
(* Handlers of main.py, as functions of the store *)

\* ObjectId(task_id) raises for a string that is no ObjectId.
ObjectIdOk(task_id) == task_id.valid

ObjectId(task_id) == task_id.oid

\* Mutant of CreateData: the two stamps exchanged.
CreateData_SwappedStamps(payload, t1, t2) ==
    [ title      |-> Some(payload.title),
      notes      |-> payload.notes,
      priority   |-> Some(payload.priority),
      due_at     |-> payload.due_at,
      completed  |-> Some(FALSE),
      created_at |-> Some(t2),
      updated_at |-> Some(t1) ]

\* create_task: data = payload.model_dump(); setdefault("completed", False);
\* created_at and updated_at are two readings of the clock.
CreateData(payload, t1, t2) ==
    [ title      |-> Some(payload.title),
      notes      |-> payload.notes,
      priority   |-> Some(payload.priority),
      due_at     |-> payload.due_at,
      completed  |-> Some(FALSE),
      created_at |-> Some(t1),
      updated_at |-> Some(t2) ]

\* create_task: find_one on the inserted id, then serialize_task(doc)
CreateRespond(st, req) ==
    LET doc == FindOne(st, ObjectId(req.inserted_id))
    IN  IF doc = None THEN ServerError("create", req)
        ELSE ReturnTask("create", req, Value(doc))

\* Mutant of NoFields: the empty-update check left out.
NoFields_Never(update) == FALSE

\* update_task: if not update
NoFields(update) == DOMAIN update = {}

\* update_task: the $set document, the supplied fields and updated_at
UpdateSet(payload, now) ==
    [k \in payload.fields_set \cup {"updated_at"} |->
        IF k = "updated_at" THEN Some(now) ELSE payload[k]]

UpdateRejected(task_id, payload) ==
    ~ObjectIdOk(task_id) \/ NoFields(ModelDumpSet(payload))

UpdateRejection(req) ==
    IF ~ObjectIdOk(req.task_id)
    THEN Response("update", req, 400, "Invalid task id", <<>>)
    ELSE Response("update", req, 400, "No fields to update", <<>>)

\* update_task: find_one, 404 if there is no document, else serialize_task(doc)
UpdateRespond(st, req) ==
    LET doc == FindOne(st, ObjectId(req.task_id))
    IN  IF doc = None
        THEN Response("update", req, 404, "Task not found", <<>>)
        ELSE ReturnTask("update", req, Value(doc))

\* list_tasks
ListRespond(st, req, now) ==
    LET docs == SortDesc(GetDocuments(st, BuildQuery(req.q, req.filter)), now)
    IN  IF \E i \in 1..Len(docs) : ~TaskOutValid(docs[i])
        THEN ServerError("list", req)
        ELSE Response("list", req, 200, "",
                      [i \in 1..Len(docs) |-> SerializeTask(docs[i])])

\* Mutant of DeleteRespond: deleted_count is not looked at.
DeleteRespond_NoCountCheck(st, req) ==
    IF ~ObjectIdOk(req.task_id)
    THEN Response("delete", req, 400, "Invalid task id", <<>>)
    ELSE Response("delete", req, 200, "ok", <<>>)

\* delete_task
DeleteRespond(st, req) ==
    IF ~ObjectIdOk(req.task_id)
    THEN Response("delete", req, 400, "Invalid task id", <<>>)
    ELSE IF DeletedCount(st, ObjectId(req.task_id)) = 0
    THEN Response("delete", req, 404, "Task not found", <<>>)
    ELSE Response("delete", req, 200, "ok", <<>>)

----------------------------------------------------------------------------
(* Initial state: an empty collection *)

Init ==
    /\ store = <<>>
    /\ nextId = 0
    /\ clock = 0
    /\ nreq = 0
    /\ resp = NoResponse
    /\ pending = {}
    /\ okDeletes = [i \in ObjectIds |-> 0]

----------------------------------------------------------------------------
(* Actions: one request handled from start to end *)

ListTasks(q, filter) ==
    /\ nreq < MaxRequests
    /\ \E now \in Now(clock) :
          /\ resp' = ListRespond(store, [q |-> q, filter |-> filter], now)
          /\ clock' = now
    /\ nreq' = nreq + 1
    /\ UNCHANGED <<store, nextId, pending, okDeletes>>

CreateTask(body) ==
    /\ nreq < MaxRequests
    /\ nextId < MaxTasks
    /\ \E t1 \in Now(clock) : \E t2 \in Now(t1) :
          LET payload == TaskCreate(body)
              req     == [payload |-> payload,
                          inserted_id |-> StrOfObjectId(InsertedId(nextId))]
          IN  /\ store' = CreateDocument(store, nextId, CreateData(payload, t1, t2))
              /\ resp' = CreateRespond(store', req)
              /\ clock' = t2
    /\ nextId' = nextId + 1
    /\ nreq' = nreq + 1
    /\ UNCHANGED <<pending, okDeletes>>

UpdateTask(task_id, body) ==
    /\ nreq < MaxRequests
    /\ LET payload == TaskUpdate(body)
           req     == [task_id |-> task_id, payload |-> payload]
       IN  IF UpdateRejected(task_id, payload)
           THEN /\ resp' = UpdateRejection(req)
                /\ UNCHANGED <<store, clock>>
           ELSE \E now \in Now(clock) :
                   /\ store' = FindOneAndUpdate(store, ObjectId(task_id),
                                                UpdateSet(payload, now))
                   /\ resp' = UpdateRespond(store', req)
                   /\ clock' = now
    /\ nreq' = nreq + 1
    /\ UNCHANGED <<nextId, pending, okDeletes>>

DeleteTask(task_id) ==
    /\ nreq < MaxRequests
    /\ LET req == [task_id |-> task_id]
       IN  /\ resp' = DeleteRespond(store, req)
           /\ IF resp'.status = 200
              THEN /\ store' = DeleteOne(store, ObjectId(task_id))
                   /\ okDeletes' = [okDeletes EXCEPT ![ObjectId(task_id)] = @ + 1]
              ELSE UNCHANGED <<store, okDeletes>>
    /\ nreq' = nreq + 1
    /\ UNCHANGED <<nextId, clock, pending>>

Next ==
    \/ \E q \in Queries, filter \in Filters : ListTasks(q, filter)
    \/ \E body \in CreateBodies : CreateTask(body)
    \/ \E task_id \in TaskIds, body \in UpdateBodies : UpdateTask(task_id, body)
    \/ \E task_id \in TaskIds : DeleteTask(task_id)

Spec == Init /\ [][Next]_vars

----------------------------------------------------------------------------
(* Actions of several server processes sharing the store: create_task and  *)
(* update_task are split between their write and their read-back.          *)

CreateInsert(body) ==
    /\ nreq < MaxRequests
    /\ nextId < MaxTasks
    /\ Cardinality(pending) < MaxPending
    /\ \E t1 \in Now(clock) : \E t2 \in Now(t1) :
          LET payload == TaskCreate(body)
              req     == [payload |-> payload,
                          inserted_id |-> StrOfObjectId(InsertedId(nextId))]
          IN  /\ store' = CreateDocument(store, nextId, CreateData(payload, t1, t2))
              /\ pending' = pending \cup {[op |-> "create", req |-> req]}
              /\ clock' = t2
    /\ nextId' = nextId + 1
    /\ nreq' = nreq + 1
    /\ resp' = NoResponse
    /\ UNCHANGED okDeletes

CreateReadBack(p) ==
    /\ p.op = "create"
    /\ resp' = CreateRespond(store, p.req)
    /\ pending' = pending \ {p}
    /\ UNCHANGED <<store, nextId, clock, nreq, okDeletes>>

UpdateWrite(task_id, body) ==
    /\ nreq < MaxRequests
    /\ Cardinality(pending) < MaxPending
    /\ LET payload == TaskUpdate(body)
           req     == [task_id |-> task_id, payload |-> payload]
       IN  IF UpdateRejected(task_id, payload)
           THEN /\ resp' = UpdateRejection(req)
                /\ UNCHANGED <<store, clock, pending>>
           ELSE \E now \in Now(clock) :
                   /\ store' = FindOneAndUpdate(store, ObjectId(task_id),
                                                UpdateSet(payload, now))
                   /\ pending' = pending \cup {[op |-> "update", req |-> req]}
                   /\ resp' = NoResponse
                   /\ clock' = now
    /\ nreq' = nreq + 1
    /\ UNCHANGED <<nextId, okDeletes>>

UpdateReadBack(p) ==
    /\ p.op = "update"
    /\ resp' = UpdateRespond(store, p.req)
    /\ pending' = pending \ {p}
    /\ UNCHANGED <<store, nextId, clock, nreq, okDeletes>>

ConcNext ==
    \/ \E q \in Queries, filter \in Filters : ListTasks(q, filter)
    \/ \E body \in CreateBodies : CreateInsert(body)
    \/ \E p \in pending : CreateReadBack(p)
    \/ \E task_id \in TaskIds, body \in UpdateBodies : UpdateWrite(task_id, body)
    \/ \E p \in pending : UpdateReadBack(p)
    \/ \E task_id \in TaskIds : DeleteTask(task_id)

ConcSpec == Init /\ [][ConcNext]_vars

----------------------------------------------------------------------------
(* Vocabulary of the properties *)

Stored == DOMAIN store

RespOid == ObjectId(resp.req.task_id)

BodyIds(r) == {r.body[i].id.oid : i \in 1..Len(r.body)}

\* The field constraints of the Task schema (schemas.py).
TaskSchemaOk(title, notes, priority) ==
    /\ title # None
    /\ Len(Value(title)) >= TitleMinLen
    /\ Len(Value(title)) <= TitleMaxLen
    /\ notes # None => Len(Value(notes)) <= NotesMaxLen
    /\ priority \in {Some("low"), Some("medium"), Some("high")}

\* q occurs in text as a literal substring, letter case ignored.
LiteralContains(q, text) ==
    \E i \in 0..(Len(text) - Len(q)) :
        \A j \in 1..Len(q) : Lower(q[j]) = Lower(text[i + j])

FieldContains(doc, key, q) ==
    doc[key] # None /\ LiteralContains(q, Value(doc[key]))

CompletedConstraint(doc, filter) ==
    /\ filter = Some("active") => doc["completed"] = Some(FALSE)
    /\ filter = Some("completed") => doc["completed"] = Some(TRUE)

SortedByCreatedDesc(body) ==
    \A i \in 1..Len(body) : \A j \in i..Len(body) :
        Value(body[i].created_at) >= Value(body[j].created_at)

----------------------------------------------------------------------------
(* C1: a successful PATCH leaves every field its payload does not supply,   *)
(* and the record's _id and created_at, as they were stored before, and     *)
(* leaves every other record unchanged: only the supplied fields and        *)
(* updated_at change.                                                       *)

UpdateFrameStep ==
    (resp'.op = "update" /\ resp'.status = 200) =>
        LET oid      == ObjectId(resp'.req.task_id)
            supplied == resp'.req.payload.fields_set
        IN  /\ oid \in DOMAIN store
            /\ DOMAIN store' = DOMAIN store
            /\ \A i \in DOMAIN store \ {oid} : store'[i] = store[i]
            /\ DOMAIN store'[oid] = DOMAIN store[oid]
            /\ store'[oid]["_id"] = store[oid]["_id"]
            /\ store'[oid]["created_at"] = store[oid]["created_at"]
            /\ \A k \in DOMAIN store[oid] \ (supplied \cup {"updated_at"}) :
                  store'[oid][k] = store[oid][k]

\* C1: every step that answers a PATCH with 200 changes, in the store, only
\* the supplied fields and updated_at of the addressed record.
C1_UpdateLeavesUnsuppliedFields == [][UpdateFrameStep]_vars

\* A successful update of one of two stored records, not supplying notes,
\* on a record that has notes.
C1_Witness ==
    /\ resp.op = "update"
    /\ resp.status = 200
    /\ Cardinality(Stored) = 2
    /\ "notes" \notin resp.req.payload.fields_set
    /\ resp.body[1].notes # None

----------------------------------------------------------------------------
(* C2: every stored record satisfies the schema's field constraints         *)
(* (priority low/medium/high, title of length 1..240, notes absent or of    *)
(* length <= 2000), and a create or update payload that violates them is    *)
(* answered with a validation error.                                        *)

PayloadViolatesSchema ==
    \/ /\ resp.op = "create"
       /\ ~TaskSchemaOk(Some(resp.req.payload.title), resp.req.payload.notes,
                        Some(resp.req.payload.priority))
    \/ /\ resp.op = "update"
       /\ ObjectIdOk(resp.req.task_id)
       /\ LET p == resp.req.payload
          IN  \/ "title" \in p.fields_set
                 /\ ~TaskSchemaOk(p.title, None, Some("medium"))
              \/ "notes" \in p.fields_set
                 /\ ~TaskSchemaOk(Some(<<"a">>), p.notes, Some("medium"))
              \/ "priority" \in p.fields_set
                 /\ ~TaskSchemaOk(Some(<<"a">>), None, p.priority)

\* C2: every stored record satisfies the Task schema's constraints, and a
\* payload violating them is answered 422.
C2_StoredRecordsSatisfySchema ==
    /\ \A i \in Stored :
          TaskSchemaOk(store[i]["title"], store[i]["notes"], store[i]["priority"])
    /\ PayloadViolatesSchema => resp.status = 422

----------------------------------------------------------------------------
(* C3: every stored record has updated_at >= created_at; created_at is      *)
(* never written after the create, and a successful update sets updated_at  *)
(* to the time read during that update.                                     *)

UpdatedNotBeforeCreated ==
    \A i \in Stored :
        Value(store[i]["updated_at"]) >= Value(store[i]["created_at"])

TimestampStep ==
    /\ \A i \in DOMAIN store \cap DOMAIN store' :
          store'[i]["created_at"] = store[i]["created_at"]
    /\ (resp'.op = "update" /\ resp'.status = 200) =>
          store'[ObjectId(resp'.req.task_id)]["updated_at"] = Some(clock')

\* C3: always updated_at >= created_at on every stored record; created_at
\* never changes; a successful update stamps updated_at with the time read.
C3_UpdatedAtNotBeforeCreatedAt ==
    /\ []UpdatedNotBeforeCreated
    /\ [][TimestampStep]_vars

\* An update answered with a record whose updated_at is later than created_at.
C3_Witness ==
    /\ resp.op = "update"
    /\ resp.status = 200
    /\ Value(store[RespOid]["updated_at"]) > Value(store[RespOid]["created_at"])

----------------------------------------------------------------------------
(* C4: an update with a malformed id is answered 400 "Invalid task id", an  *)
(* update with a well-formed id and no supplied field is answered 400       *)
(* "No fields to update", and in both cases the store is not touched.       *)

UpdateRejectStep ==
    resp'.op = "update" =>
        /\ ~ObjectIdOk(resp'.req.task_id) =>
              /\ resp'.status = 400
              /\ resp'.detail = "Invalid task id"
              /\ store' = store
        /\ (ObjectIdOk(resp'.req.task_id) /\ resp'.req.payload.fields_set = {}) =>
              /\ resp'.status = 400
              /\ resp'.detail = "No fields to update"
              /\ store' = store

\* C4: a malformed id, and an empty payload on a well-formed id, are answered
\* 400 by a step that leaves the store unchanged.
C4_UpdateRejectedBeforePersistence == [][UpdateRejectStep]_vars

\* An empty update addressed to a stored record, answered NoFieldsSupplied.
C4_Witness ==
    /\ resp.op = "update"
    /\ ObjectIdOk(resp.req.task_id)
    /\ resp.req.payload.fields_set = {}
    /\ RespOid \in Stored
    /\ resp.status = 400

----------------------------------------------------------------------------
(* C5: deleting an existing record answers {status: ok} and removes exactly *)
(* that record; deleting a well-formed id with no record answers 404 and    *)
(* changes nothing; two deletes of one id in a row answer ok then 404; at   *)
(* most one delete of a given id ever succeeds.                             *)

DeleteStep ==
    (resp'.op = "delete" /\ ObjectIdOk(resp'.req.task_id)) =>
        LET oid == ObjectId(resp'.req.task_id)
        IN  IF oid \in DOMAIN store
            THEN /\ resp'.status = 200
                 /\ resp'.detail = "ok"
                 /\ DOMAIN store' = DOMAIN store \ {oid}
                 /\ \A i \in DOMAIN store' : store'[i] = store[i]
            ELSE /\ resp'.status = 404
                 /\ store' = store

DeleteTwiceStep ==
    (/\ resp.op = "delete"
     /\ resp.status = 200
     /\ resp'.op = "delete"
     /\ resp'.req = resp.req) => resp'.status = 404

\* C5: delete answers ok and removes exactly the addressed record, or answers
\* 404 and changes nothing; ok is followed by 404; at most one ok per id.
C5_DeleteRemovesExactlyOnce ==
    /\ [][DeleteStep /\ DeleteTwiceStep]_vars
    /\ [](\A i \in ObjectIds : okDeletes[i] <= 1)

\* The second delete of an id whose first delete succeeded.
C5_Witness ==
    /\ resp.op = "delete"
    /\ resp.status = 404
    /\ ObjectIdOk(resp.req.task_id)
    /\ okDeletes[RespOid] = 1

----------------------------------------------------------------------------
(* C6: a list request without q answers 200 with exactly the stored records *)
(* that have completed=false (filter=active), completed=true                *)
(* (filter=completed) or all stored records (no filter), ordered by         *)
(* created_at descending, and leaves the store unchanged.                   *)

NoQuery(q) == q = None \/ q = Some(<<>>)

ListFilterStep ==
    (/\ resp'.op = "list"
     /\ NoQuery(resp'.req.q)
     /\ resp'.req.filter \in {None, Some("active"), Some("completed")}) =>
        /\ resp'.status = 200
        /\ Len(resp'.body) = Cardinality(BodyIds(resp'))
        /\ BodyIds(resp') =
              {i \in DOMAIN store : CompletedConstraint(store[i], resp'.req.filter)}
        /\ SortedByCreatedDesc(resp'.body)
        /\ store' = store

\* C6: every list step without q answers 200 with exactly the records the
\* filter selects, newest first, and leaves the store unchanged.
C6_ListFiltersAndSorts == [][ListFilterStep]_vars

\* What list_tasks does instead: the same, unless a matching stored record
\* does not serialize, and then the request fails with a server error.
ListFilterOrFailStep ==
    (/\ resp'.op = "list"
     /\ NoQuery(resp'.req.q)
     /\ resp'.req.filter \in {None, Some("active"), Some("completed")}) =>
        LET match == {i \in DOMAIN store :
                         CompletedConstraint(store[i], resp'.req.filter)}
        IN  /\ store' = store
            /\ IF \E i \in match : ~TaskOutValid(store[i])
               THEN resp'.status = 500
               ELSE /\ resp'.status = 200
                    /\ Len(resp'.body) = Cardinality(match)
                    /\ BodyIds(resp') = match
                    /\ \A n \in 1..Len(resp'.body) :
                          resp'.body[n] = SerializeTask(store[resp'.body[n].id.oid])
                    /\ SortedByCreatedDesc(resp'.body)

ListFiltersAndSortsUnlessUnserializable == [][ListFilterOrFailStep]_vars

----------------------------------------------------------------------------
(* C7: a list request with q answers 200 with exactly the stored records    *)
(* whose title or notes contains q as a literal substring, letter case      *)
(* ignored, and that also satisfy the completed constraint of the filter.   *)

\* C7: a list with q answers 200 with exactly the records containing q
\* literally (case-insensitively) in title or notes, and passing the filter.
C7_ListSearchesLiteralSubstring ==
    (resp.op = "list" /\ resp.req.q # None) =>
        /\ resp.status = 200
        /\ BodyIds(resp) =
              {i \in Stored :
                  /\ \/ FieldContains(store[i], "title", Value(resp.req.q))
                     \/ FieldContains(store[i], "notes", Value(resp.req.q))
                  /\ CompletedConstraint(store[i], resp.req.filter)}

\* What list_tasks does instead: q is a regular expression (an empty q is
\* no constraint), and a matching record that does not serialize fails the
\* request.
ListSearchesRegex ==
    (resp.op = "list" /\ resp.req.q # None) =>
        LET match == {i \in Stored :
                         /\ NoQuery(resp.req.q)
                            \/ FieldRegex(store[i], "title", Value(resp.req.q))
                            \/ FieldRegex(store[i], "notes", Value(resp.req.q))
                         /\ CompletedConstraint(store[i], resp.req.filter)}
        IN  IF \E i \in match : ~TaskOutValid(store[i])
            THEN resp.status = 500
            ELSE resp.status = 200 /\ BodyIds(resp) = match

----------------------------------------------------------------------------
(* C8: a create whose payload supplies only a title stores and returns a    *)
(* record with a newly assigned id, that title, priority medium, completed  *)
(* false, no notes, no due_at; the returned record is the stored record.    *)
(* As claimed, created_at equals updated_at; as amended, created_at is not  *)
(* later than updated_at (they are two readings of the clock).              *)

CreateTitleOnlyCommon ==
    LET oid == ObjectId(resp'.req.inserted_id)
        t   == resp'.body[1]
    IN  /\ resp'.status = 200
        /\ Len(resp'.body) = 1
        /\ oid \notin DOMAIN store
        /\ oid > nextId
        /\ DOMAIN store' = DOMAIN store \cup {oid}
        /\ \A i \in DOMAIN store : store'[i] = store[i]
        /\ t.id = StrOfObjectId(oid)
        /\ t.title = resp'.req.payload.title
        /\ t.priority = "medium"
        /\ t.completed = FALSE
        /\ t.notes = None
        /\ t.due_at = None
        /\ t.created_at # None
        /\ t.updated_at # None
        /\ store'[oid]["title"] = Some(t.title)
        /\ store'[oid]["priority"] = Some(t.priority)
        /\ store'[oid]["completed"] = Some(t.completed)
        /\ store'[oid]["notes"] = t.notes
        /\ store'[oid]["due_at"] = t.due_at
        /\ store'[oid]["created_at"] = t.created_at
        /\ store'[oid]["updated_at"] = t.updated_at

CreateTitleOnly == resp'.op = "create" /\ resp'.req.payload.fields_set = {"title"}

\* C8, as claimed: a title-only create returns the stored record, with the
\* defaults, a new id, and created_at = updated_at.
C8_CreateTitleOnlyEqualStamps ==
    [][CreateTitleOnly =>
          /\ CreateTitleOnlyCommon
          /\ resp'.body[1].created_at = resp'.body[1].updated_at]_vars

\* C8, as amended: a title-only create returns the stored record, with the
\* defaults, a new id, and created_at <= updated_at, both read from the clock
\* during the request.
C8_CreateTitleOnlyOrderedStamps ==
    [][CreateTitleOnly =>
          /\ CreateTitleOnlyCommon
          /\ Value(resp'.body[1].created_at) <= Value(resp'.body[1].updated_at)
          /\ Value(resp'.body[1].created_at) >= clock
          /\ Value(resp'.body[1].updated_at) = clock']_vars

\* A title-only create answered with a record whose two stamps differ.
C8_Witness ==
    /\ resp.op = "create"
    /\ resp.req.payload.fields_set = {"title"}
    /\ resp.status = 200
    /\ Value(resp.body[1].created_at) < Value(resp.body[1].updated_at)

----------------------------------------------------------------------------
(* C9: a list request always answers 200, and no accepted request leaves a  *)
(* stored record that does not serialize to the Task output shape.          *)

\* C9: every list answers 200 and every stored record serializes to TaskOut.
C9_ListNeverFails ==
    /\ resp.op = "list" => resp.status = 200
    /\ \A i \in Stored : TaskOutValid(store[i])

----------------------------------------------------------------------------
(* C10: under interleaving, an update with a well-formed id and a non-empty *)
(* payload answers 404 exactly when no record has that id at its read-back, *)
(* and otherwise returns the record stored at that time; an update never    *)
(* creates a record.                                                        *)

UpdateAccepted(r) ==
    /\ r.op = "update"
    /\ ObjectIdOk(r.req.task_id)
    /\ r.req.payload.fields_set # {}

UpdateNeverCreatesStep ==
    (\E p \in pending' \ pending : p.op = "update") => DOMAIN store' = DOMAIN store

\* C10: an accepted update answers 404 iff the record is absent at its
\* read-back, else 200 with the record stored then; no update creates a record.
C10_UpdateReadBackOutcome ==
    /\ [](UpdateAccepted(resp) =>
            /\ resp.status = 404 <=> RespOid \notin Stored
            /\ RespOid \in Stored =>
                  /\ resp.status = 200
                  /\ resp.body = <<SerializeTask(store[RespOid])>>)
    /\ [][UpdateNeverCreatesStep]_vars

\* What update_task does instead: a stored record that does not serialize
\* makes the read-back fail with a server error.
UpdateReadBackOutcomeOrFail ==
    /\ [](UpdateAccepted(resp) =>
            /\ resp.status = 404 <=> RespOid \notin Stored
            /\ RespOid \in Stored =>
                  IF TaskOutValid(store[RespOid])
                  THEN /\ resp.status = 200
                       /\ resp.body = <<SerializeTask(store[RespOid])>>
                  ELSE resp.status = 500)
    /\ [][UpdateNeverCreatesStep]_vars

====
